---- MODULE Spec2Model ----
(***************************************************************************)
(* Model of the MelCloud platform start-up handler (index.js): the         *)
(* 'didFinishLaunching' callback that walks config.accounts, validates     *)
(* each account, connects, lists the cloud devices, starts the impulse     *)
(* generator and dispatches the configured ATA / ATW / ERV devices to      *)
(* their controllers.                                                      *)
(*                                                                         *)
(* The handler is ONE async function: its position is the program counter  *)
(* pc together with the loop cursors acc (account), typ (device type) and  *)
(* idx (device).  The cloud session (connect, chackDevicesList) and the    *)
(* device controllers (constructor, start) are external: each of their     *)
(* outcomes is a nondeterministic step.                                    *)
(***************************************************************************)
EXTENDS Integers, Sequences, FiniteSets, TLC

\* ------------------------------------------------------------- bounds
\* longest config.accounts explored
MaxAccounts == 2
\* most device entries (over the three lists) of the account whose lists vary
MaxDevices == 2
\* most refresh ticks (over all accounts) of the impulse generators
MaxTicks == 2

\* ------------------------------------------------------------- JS values
\* A property of a config object: absent (undefined) or present with a value.
None == <<>>
Some(v) == <<v>>
Val(o) == o[1]

\* !s for a string property: undefined and '' are falsy
FalsyString(o) == o = None \/ o = Some("")

\* (n * 1000 || dflt) for a numeric property: undefined * 1000 is NaN, and
\* NaN and 0 are falsy; every other number (negative ones too) is truthy
MsPerSecond == 1000
DefaultRefreshInterval == 120000
DefaultDeviceRefreshInterval == 5000
TimesThousandOr(o, dflt) ==
    IF o = None THEN dflt
    ELSE IF Val(o) * MsPerSecond = 0 THEN dflt ELSE Val(o) * MsPerSecond

\* ------------------------------------------------------------- configuration
Names == {"A", "B"}
NameValues == {None, Some("")} \cup {Some(n) : n \in Names}
CredentialValues == {None, Some("x")}
IntervalValues == {None, Some(-1), Some(0), Some(1), Some(2)}
DeviceIds == {1, 2}
DisplayModes == {None, Some(-1), Some(0), Some(1)}
DeviceSet == [id : DeviceIds, displayMode : DisplayModes]

Types == 1..3
TypeName == <<"ATA", "ATW", "ERV">>

\* the lists every account of a multi-account configuration carries
ReferenceAta == <<[id |-> 1, displayMode |-> Some(1)], [id |-> 2, displayMode |-> Some(1)]>>

Account(name, user, passwd, language, ri, dri, ata, atw, erv) ==
    [name |-> name, user |-> user, passwd |-> passwd, language |-> language,
     refreshInterval |-> ri, deviceRefreshInterval |-> dri,
     ataDevices |-> ata, atwDevices |-> atw, ervDevices |-> erv]

\* (i) up to MaxAccounts accounts, every combination of the mandatory fields
ValidationAccounts ==
    {Account(n, u, p, l, None, None, Some(ReferenceAta), Some(<<>>), Some(<<>>)) :
        n \in NameValues, u \in CredentialValues, p \in CredentialValues,
        l \in CredentialValues}
ValidationConfigs == UNION {[1..n -> ValidationAccounts] : n \in 0..MaxAccounts}

\* (ii) one valid account, every arrangement of at most MaxDevices device
\* entries over the three lists, each list possibly absent (-1)
ListsOfLen(k) == IF k < 0 THEN {None} ELSE {Some(s) : s \in [1..k -> DeviceSet]}
Entries(k) == IF k < 0 THEN 0 ELSE k
LengthTriples ==
    {t \in (-1..MaxDevices) \X (-1..MaxDevices) \X (-1..MaxDevices) :
        Entries(t[1]) + Entries(t[2]) + Entries(t[3]) <= MaxDevices}
DeviceConfigs ==
    UNION {
        {<<Account(Some("A"), Some("x"), Some("x"), Some("x"), None, None, a, w, e)>> :
            a \in ListsOfLen(t[1]), w \in ListsOfLen(t[2]), e \in ListsOfLen(t[3])} :
        t \in LengthTriples}

\* (iii) one valid account, every refresh interval setting
IntervalConfigs ==
    {<<Account(Some("A"), Some("x"), Some("x"), Some("x"), ri, dri,
               Some(ReferenceAta), Some(<<>>), Some(<<>>))>> :
        ri \in IntervalValues, dri \in IntervalValues}

Configs == ValidationConfigs \cup DeviceConfigs \cup IntervalConfigs

\* (iv) the configurations explored together with the refresh ticks: one or
\* two accounts, with or without a language and an ATW list
RefreshAccounts ==
    {Account(Some(n), Some("x"), Some("x"), l, None, None, Some(ReferenceAta), w, Some(<<>>)) :
        n \in Names, l \in CredentialValues, w \in {None, Some(<<>>)}}
RefreshConfigs == [1..1 -> RefreshAccounts] \cup [1..2 -> RefreshAccounts]

\* ------------------------------------------------------------- state
VARIABLES
    accounts,      \* config.accounts
    pc,            \* where the handler is
    acc,           \* index of the account of the current iteration
    typ,           \* device type whose loop is running (4: past the ERV loop)
    idx,           \* index of the device of the current iteration
    accountsName,  \* the names pushed so far
    melCloud,      \* per account: the MelCloud object's calls and results
    controllers,   \* per account: the controllers constructed, in order
    entered,       \* per account: the device types whose try block was entered
    log            \* the log calls made, in order

vars == <<accounts, pc, acc, typ, idx, accountsName, melCloud, controllers, entered, log>>

\* connect, list: the state of the call awaited by the handler; connects: the
\* calls of connect() made; devices: the list the handler got (const devices);
\* timers: the calls of impulseGenerator.start; registry: the latest list the
\* MelCloud object got; ticks: the checkDevicesList ticks run
NoSession ==
    [connect |-> "idle", list |-> "idle", connects |-> 0, devices |-> {}, timers |-> <<>>,
     registry |-> {}, ticks |-> 0]

InitWith(configs) ==
    /\ accounts \in configs
    /\ pc = "accounts"
    /\ acc = 1
    /\ typ = 0
    /\ idx = 0
    /\ accountsName = <<>>
    /\ melCloud = [i \in 1..Len(accounts) |-> NoSession]
    /\ controllers = [i \in 1..Len(accounts) |-> <<>>]
    /\ entered = [i \in 1..Len(accounts) |-> {}]
    /\ log = <<>>

Init == InitWith(Configs)

\* ------------------------------------------------------------- helpers
Includes(seq, v) == \E k \in 1..Len(seq) : seq[k] = v

Entry(level, i, scope) == [level |-> level, account |-> i, scope |-> scope]

\* faulty variant: the check leaves out the language
MandatoryMissingButLanguage(account) ==
    \/ FalsyString(account.name)
    \/ FalsyString(account.user)
    \/ FalsyString(account.passwd)

\* if (!accountName || !user || !passwd || !language)
MandatoryMissing(account) ==
    \/ FalsyString(account.name)
    \/ FalsyString(account.user)
    \/ FalsyString(account.passwd)
    \/ FalsyString(account.language)

\* faulty variant: the name is pushed before it is looked up
DuplicateNameAlways(names, account) == TRUE

\* faulty variant: the duplicate check never fires
DuplicateNameNever(names, account) == FALSE

\* accountsName.includes(accountName)
DuplicateName(names, account) == Includes(names, Val(account.name))

\* faulty variant: the account interval falls back to the device default
RefreshIntervalDeviceDefault(account) ==
    TimesThousandOr(account.refreshInterval, DefaultDeviceRefreshInterval)

\* const refreshInterval = account.refreshInterval * 1000 || 120000
RefreshInterval(account) == TimesThousandOr(account.refreshInterval, DefaultRefreshInterval)

\* const deviceRefreshInterval = account.deviceRefreshInterval * 1000 || 5000
DeviceRefreshInterval(account) ==
    TimesThousandOr(account.deviceRefreshInterval, DefaultDeviceRefreshInterval)

\* account.ataDevices / account.atwDevices / account.ervDevices
TypeList(account, t) ==
    CASE t = 1 -> account.ataDevices
      [] t = 2 -> account.atwDevices
      [] t = 3 -> account.ervDevices

\* faulty variant: displayMode >= 0
DisplayModeNotNegative(device) ==
    IF device.displayMode = None THEN FALSE ELSE Val(device.displayMode) >= 0

\* const displayMode = device.displayMode > 0 ?? false
\* (> binds tighter than ??; undefined > 0 is false)
DisplayMode(device) ==
    IF device.displayMode = None THEN FALSE ELSE Val(device.displayMode) > 0

\* faulty variant: the ids are not compared
DeviceListNotEmpty(devices, deviceId) == \E dev \in devices : TRUE

\* devices.some(dev => dev.DeviceID === deviceId)
DeviceExistInMelCloud(devices, deviceId) == \E dev \in devices : dev = deviceId

\* the negation of the guard of 'continue'
Dispatched(devices, device) ==
    ~(~DeviceExistInMelCloud(devices, device.id) \/ ~DisplayMode(device))

\* faulty variant: the failure reaches the account-level catch
AfterAllLoops(t) == 4

\* where control resumes after the catch of the try around the loop of type t
AfterTypeCatch(t) == t + 1

\* faulty variant: the timer is listed twice
TimersTwice(account) ==
    <<[name |-> "checkDevicesList", sampling |-> RefreshInterval(account)],
      [name |-> "checkDevicesList", sampling |-> RefreshInterval(account)]>>

\* const timers = [{ name: 'checkDevicesList', sampling: refreshInterval }]
Timers(account) == <<[name |-> "checkDevicesList", sampling |-> RefreshInterval(account)]>>

\* faulty variant: start() is called without await
StartNotAwaited == FALSE

\* 'await controller.start()': the loop waits for the start to settle
AwaitsStart == TRUE

\* ------------------------------------------------------------- the handler
CurrentAccount == accounts[acc]

\* faulty variant: the dispatch reads the list the MelCloud object holds now
LatestList(i) == melCloud[i].registry

\* const devices = await melCloud.chackDevicesList(contextKey)
Snapshot(i) == melCloud[i].devices
CurrentList == TypeList(CurrentAccount, typ)
CurrentDevice == Val(CurrentList)[idx]

\* for (const account of config.accounts) is exhausted: the handler completes
HandlerDone ==
    /\ pc = "accounts"
    /\ acc > Len(accounts)
    /\ pc' = "done"
    /\ UNCHANGED <<accounts, acc, typ, idx, accountsName, melCloud, controllers, entered, log>>

\* a mandatory property is missing: log.warn, return
RejectMissing ==
    /\ pc = "accounts"
    /\ acc <= Len(accounts)
    /\ MandatoryMissing(CurrentAccount)
    /\ log' = Append(log, Entry("warn", acc, "config"))
    /\ pc' = "returned"
    /\ UNCHANGED <<accounts, acc, typ, idx, accountsName, melCloud, controllers, entered>>

\* the account name was pushed before: log.warn, return
RejectDuplicate ==
    /\ pc = "accounts"
    /\ acc <= Len(accounts)
    /\ ~MandatoryMissing(CurrentAccount)
    /\ DuplicateName(accountsName, CurrentAccount)
    /\ log' = Append(log, Entry("warn", acc, "unique"))
    /\ pc' = "returned"
    /\ UNCHANGED <<accounts, acc, typ, idx, accountsName, melCloud, controllers, entered>>

\* faulty variant: the name is not pushed
CallConnectNoPush ==
    /\ pc = "accounts"
    /\ acc <= Len(accounts)
    /\ ~MandatoryMissing(CurrentAccount)
    /\ ~DuplicateName(accountsName, CurrentAccount)
    /\ melCloud' = [melCloud EXCEPT ![acc].connect = "pending", ![acc].connects = @ + 1]
    /\ pc' = "connect"
    /\ UNCHANGED <<accounts, acc, typ, idx, accountsName, controllers, entered, log>>

\* the account passes both checks: its name is pushed, the MelCloud object is
\* made and connect() is called and awaited
CallConnect ==
    /\ pc = "accounts"
    /\ acc <= Len(accounts)
    /\ ~MandatoryMissing(CurrentAccount)
    /\ ~DuplicateName(accountsName, CurrentAccount)
    /\ accountsName' = Append(accountsName, Val(CurrentAccount.name))
    /\ melCloud' = [melCloud EXCEPT ![acc].connect = "pending", ![acc].connects = @ + 1]
    /\ pc' = "connect"
    /\ UNCHANGED <<accounts, acc, typ, idx, controllers, entered, log>>

\* connect() resolves: chackDevicesList(contextKey) is called and awaited
ConnectResolve ==
    /\ pc = "connect"
    /\ melCloud' = [melCloud EXCEPT ![acc].connect = "ok", ![acc].list = "pending"]
    /\ pc' = "list"
    /\ UNCHANGED <<accounts, acc, typ, idx, accountsName, controllers, entered, log>>

\* faulty variant: the rejection is swallowed and the handler goes on
ConnectRejectSwallowed ==
    /\ pc = "connect"
    /\ melCloud' = [melCloud EXCEPT ![acc].connect = "failed", ![acc].list = "pending"]
    /\ pc' = "list"
    /\ UNCHANGED <<accounts, acc, typ, idx, accountsName, controllers, entered, log>>

\* connect() rejects: the account-level catch logs, the next iteration begins
ConnectReject ==
    /\ pc = "connect"
    /\ melCloud' = [melCloud EXCEPT ![acc].connect = "failed"]
    /\ log' = Append(log, Entry("error", acc, "account"))
    /\ acc' = acc + 1
    /\ pc' = "accounts"
    /\ UNCHANGED <<accounts, typ, idx, accountsName, controllers, entered>>

\* chackDevicesList() resolves with devs: the impulse generator is started
\* with the checkDevicesList timer and the ATA try block is reached
ListResolve(devs) ==
    /\ pc = "list"
    /\ melCloud' = [melCloud EXCEPT
            ![acc].list = "ok",
            ![acc].devices = devs,
            ![acc].registry = devs,
            ![acc].timers = Append(@, Timers(CurrentAccount))]
    /\ pc' = "devices"
    /\ typ' = 1
    /\ idx' = 1
    /\ UNCHANGED <<accounts, acc, accountsName, controllers, entered, log>>

\* chackDevicesList() rejects: the account-level catch logs
ListReject ==
    /\ pc = "list"
    /\ melCloud' = [melCloud EXCEPT ![acc].list = "failed"]
    /\ log' = Append(log, Entry("error", acc, "account"))
    /\ acc' = acc + 1
    /\ pc' = "accounts"
    /\ UNCHANGED <<accounts, typ, idx, accountsName, controllers, entered>>

InLoop == pc = "devices" /\ typ \in Types

\* for (const device of undefined) throws: the catch of this type logs
ListMissing ==
    /\ InLoop
    /\ CurrentList = None
    /\ entered' = [entered EXCEPT ![acc] = @ \cup {typ}]
    /\ log' = Append(log, Entry("error", acc, TypeName[typ]))
    /\ typ' = AfterTypeCatch(typ)
    /\ idx' = 1
    /\ UNCHANGED <<accounts, pc, acc, accountsName, melCloud, controllers>>

\* the loop of this type is exhausted: the next try block is reached
LoopEnd ==
    /\ InLoop
    /\ CurrentList # None
    /\ idx > Len(Val(CurrentList))
    /\ entered' = [entered EXCEPT ![acc] = @ \cup {typ}]
    /\ typ' = typ + 1
    /\ idx' = 1
    /\ UNCHANGED <<accounts, pc, acc, accountsName, melCloud, controllers, log>>

HasDevice == InLoop /\ CurrentList # None /\ idx <= Len(Val(CurrentList))

\* if (!deviceExistInMelCloud || !displayMode) continue
SkipDevice ==
    /\ HasDevice
    /\ ~Dispatched(Snapshot(acc), CurrentDevice)
    /\ entered' = [entered EXCEPT ![acc] = @ \cup {typ}]
    /\ idx' = idx + 1
    /\ UNCHANGED <<accounts, pc, acc, typ, accountsName, melCloud, controllers, log>>

Controller(state) ==
    [type |-> typ, index |-> idx, deviceId |-> CurrentDevice.id,
     deviceRefreshInterval |-> DeviceRefreshInterval(CurrentAccount), state |-> state]

\* new DeviceAta/DeviceAtw/DeviceErv(...) returns, the listeners are attached
\* and start() is called
ConstructController ==
    /\ HasDevice
    /\ Dispatched(Snapshot(acc), CurrentDevice)
    /\ entered' = [entered EXCEPT ![acc] = @ \cup {typ}]
    /\ controllers' = [controllers EXCEPT ![acc] = Append(@, Controller("starting"))]
    /\ IF AwaitsStart
       THEN pc' = "start" /\ idx' = idx
       ELSE pc' = pc /\ idx' = idx + 1
    /\ UNCHANGED <<accounts, acc, typ, accountsName, melCloud, log>>

\* the controller's constructor throws: the catch of this type logs
ConstructThrows ==
    /\ HasDevice
    /\ Dispatched(Snapshot(acc), CurrentDevice)
    /\ entered' = [entered EXCEPT ![acc] = @ \cup {typ}]
    /\ controllers' = [controllers EXCEPT ![acc] = Append(@, Controller("threw"))]
    /\ log' = Append(log, Entry("error", acc, TypeName[typ]))
    /\ typ' = AfterTypeCatch(typ)
    /\ idx' = 1
    /\ UNCHANGED <<accounts, pc, acc, accountsName, melCloud>>

\* the handler is suspended on the start() of controller k of account a
Awaited(a, k) == pc = "start" /\ a = acc /\ k = Len(controllers[acc])

\* start() of a controller resolves: the loop goes on with the next device
StartResolve(a, k) ==
    /\ controllers[a][k].state = "starting"
    /\ controllers' = [controllers EXCEPT ![a][k].state = "started"]
    /\ IF Awaited(a, k)
       THEN pc' = "devices" /\ idx' = idx + 1
       ELSE pc' = pc /\ idx' = idx
    /\ UNCHANGED <<accounts, acc, typ, accountsName, melCloud, entered, log>>

\* start() of a controller rejects: the catch of this type logs
StartReject(a, k) ==
    /\ controllers[a][k].state = "starting"
    /\ controllers' = [controllers EXCEPT ![a][k].state = "failed"]
    /\ IF Awaited(a, k)
       THEN /\ log' = Append(log, Entry("error", acc, TypeName[typ]))
            /\ pc' = "devices"
            /\ typ' = AfterTypeCatch(typ)
            /\ idx' = 1
       ELSE UNCHANGED <<log, pc, typ, idx>>
    /\ UNCHANGED <<accounts, acc, accountsName, melCloud, entered>>

\* past the ERV try block: the iteration of this account ends
EndAccount ==
    /\ pc = "devices"
    /\ typ = 4
    /\ acc' = acc + 1
    /\ pc' = "accounts"
    /\ typ' = 0
    /\ idx' = 0
    /\ UNCHANGED <<accounts, accountsName, melCloud, controllers, entered, log>>

Next ==
    \/ HandlerDone
    \/ RejectMissing
    \/ RejectDuplicate
    \/ CallConnect
    \/ ConnectResolve
    \/ ConnectReject
    \/ \E devs \in SUBSET DeviceIds : ListResolve(devs)
    \/ ListReject
    \/ ListMissing
    \/ LoopEnd
    \/ SkipDevice
    \/ ConstructController
    \/ ConstructThrows
    \/ \E a \in 1..Len(accounts) : \E k \in 1..Len(controllers[a]) : StartResolve(a, k)
    \/ \E a \in 1..Len(accounts) : \E k \in 1..Len(controllers[a]) : StartReject(a, k)
    \/ EndAccount

Spec == Init /\ [][Next]_vars

\* ------------------------------------------------------------- refresh ticks
\* The impulse generator started at the end of ListResolve fires
\* checkDevicesList ticks; the MelCloud object answers each by listing the
\* devices again and replacing the list it holds; a failed listing keeps the
\* previous list and is reported through the 'error' event, which the
\* listener attached by the handler logs.  A tick runs only while the
\* handler is suspended on an await or has ended.
RECURSIVE TicksUpTo(_)
TicksUpTo(n) == IF n = 0 THEN 0 ELSE melCloud[n].ticks + TicksUpTo(n - 1)

Suspended == pc \in {"connect", "list", "start", "done", "returned"}

TickPossible(i) ==
    /\ Suspended
    /\ melCloud[i].timers # <<>>
    /\ TicksUpTo(Len(accounts)) < MaxTicks

RefreshTick(i, devs) ==
    /\ TickPossible(i)
    /\ melCloud' = [melCloud EXCEPT ![i].registry = devs, ![i].ticks = @ + 1]
    /\ UNCHANGED <<accounts, pc, acc, typ, idx, accountsName, controllers, entered, log>>

RefreshFail(i) ==
    /\ TickPossible(i)
    /\ melCloud' = [melCloud EXCEPT ![i].ticks = @ + 1]
    /\ log' = Append(log, Entry("error", i, "event"))
    /\ UNCHANGED <<accounts, pc, acc, typ, idx, accountsName, controllers, entered>>

NextRefresh ==
    \/ Next
    \/ \E i \in 1..Len(accounts) : \E devs \in SUBSET DeviceIds : RefreshTick(i, devs)
    \/ \E i \in 1..Len(accounts) : RefreshFail(i)

InitRefresh == InitWith(RefreshConfigs)

\* every call awaited by the handler settles, and the handler runs on when
\* it can
FairSpec == Init /\ [][Next]_vars /\ WF_vars(Next)

SpecRefresh == InitRefresh /\ [][NextRefresh]_vars

\* ------------------------------------------------------------- the claims
\* What the claims speak of, stated on the configuration and the recorded
\* calls alone (not through the operators of the handler above).
Indices == 1..Len(accounts)
MandatoryFields == {"name", "user", "passwd", "language"}
FieldsPresent(i) == \A f \in MandatoryFields : accounts[i][f] # None /\ accounts[i][f] # Some("")
UniqueName(i) == \A j \in Indices \ {i} : accounts[j].name # accounts[i].name
PassesValidation(i) == FieldsPresent(i) /\ UniqueName(i)
ConnectCalled(i) == melCloud[i].connect # "idle"
ListCalled(i) == melCloud[i].list # "idle"
SchedulerStarted(i) == melCloud[i].timers # <<>>
HandlerEnded == pc \in {"done", "returned"}
\* the iteration of account i is over
IterationOver(i) == acc > i \/ HandlerEnded
Logged(level, i, scope) == \E n \in 1..Len(log) : log[n] = Entry(level, i, scope)

\* the configured entries (type t, position k) of account i
ConfiguredEntries(i) ==
    UNION {IF TypeList(accounts[i], t) = None
           THEN {}
           ELSE {<<t, k>> : k \in 1..Len(Val(TypeList(accounts[i], t)))} : t \in Types}
ConfiguredDevice(i, e) == Val(TypeList(accounts[i], e[1]))[e[2]]
\* enabled (displayMode > 0) and present in the snapshot of the device list
BoundEntries(i) ==
    {e \in ConfiguredEntries(i) :
        /\ ConfiguredDevice(i, e).displayMode # None
        /\ Val(ConfiguredDevice(i, e).displayMode) > 0
        /\ ConfiguredDevice(i, e).id \in melCloud[i].devices}
ControllersOf(i, e) ==
    {n \in 1..Len(controllers[i]) : controllers[i][n].type = e[1] /\ controllers[i][n].index = e[2]}
\* a controller was constructed (or its construction tried) for the entry
Attempted(i, e) == ControllersOf(i, e) # {}
Failures(i) == {n \in 1..Len(controllers[i]) : controllers[i][n].state \in {"threw", "failed"}}

\* C1: once the handler has ended, every account that itself passes
\* validation (all mandatory fields, a name no other account has) has had
\* connect called and, if its device list arrived, its three dispatch loops
\* run, whatever invalid accounts the configuration also holds.
C1_InvalidAccountAffectsNoOther ==
    HandlerEnded =>
        \A i \in Indices :
            PassesValidation(i) =>
                /\ ConnectCalled(i)
                /\ melCloud[i].list = "ok" => entered[i] = Types

\* C2: once the handler has ended, for valid accounts a and b where connect
\* failed for a and connect and the device listing succeeded for b: every
\* enabled and present device of b had its controller constructed, a has no
\* controller, and a's failure was logged by the account-level catch.
C2_ConnectFailureIsolated ==
    HandlerEnded =>
        \A a \in Indices, b \in Indices :
            (/\ a # b
             /\ PassesValidation(a) /\ PassesValidation(b)
             /\ melCloud[a].connect = "failed"
             /\ melCloud[b].connect = "ok" /\ melCloud[b].list = "ok") =>
                /\ \A e \in BoundEntries(b) : Attempted(b, e)
                /\ controllers[a] = <<>>
                /\ Logged("error", a, "account")

\* C3: once the iteration of an account is over, if the construction or
\* start of one of its controllers failed, every other enabled and present
\* configured device of the account had its controller constructed.
C3_SiblingsStillStart ==
    \A i \in Indices :
        (IterationOver(i) /\ melCloud[i].list = "ok") =>
            \A n \in Failures(i) :
                \A e \in BoundEntries(i) :
                    e # <<controllers[i][n].type, controllers[i][n].index>> => Attempted(i, e)

\* a call of account i that has not yet settled
Pending(i) ==
    \/ melCloud[i].connect = "pending"
    \/ melCloud[i].list = "pending"
    \/ \E n \in 1..Len(controllers[i]) : controllers[i][n].state = "starting"

\* C4 (as stated): a pending connect, device-list call or controller start
\* of one account does not block a later account: in a configuration of
\* valid accounts, while an earlier account has a call pending, a step that
\* calls connect for the next account is possible.
C4_PendingCallDoesNotBlock ==
    \A i \in Indices, j \in Indices :
        (/\ j = i + 1
         /\ \A k \in Indices : PassesValidation(k)
         /\ Pending(i)
         /\ ~ConnectCalled(j)) =>
            ENABLED (Next /\ melCloud'[j].connect = "pending")

\* C4 (amended): the accounts are started one after the other, in the
\* configured order: connect is called for an account only after connect
\* was called for every earlier account and none of the earlier account's
\* calls (connect, device list, controller start) is still pending.
C4_AccountsStartInOrder ==
    \A i \in Indices, j \in Indices :
        (i < j /\ ConnectCalled(j)) => (ConnectCalled(i) /\ ~Pending(i))

\* the second account is connecting after the first started a controller
C4_Witness ==
    /\ Len(accounts) >= 2
    /\ melCloud[2].connect = "pending"
    /\ \E n \in 1..Len(controllers[1]) : controllers[1][n].state = "started"

\* C5: an account with a missing mandatory field never has connect or the
\* device-list call invoked, never has its scheduler started and never gets
\* a controller.
C5_MissingFieldHaltsBeforeCloud ==
    \A i \in Indices :
        ~FieldsPresent(i) =>
            /\ ~ConnectCalled(i)
            /\ ~ListCalled(i)
            /\ ~SchedulerStarted(i)
            /\ controllers[i] = <<>>

\* the second account was rejected for a missing field after the first one
\* had connected
C5_Witness ==
    /\ Len(accounts) >= 2
    /\ ~FieldsPresent(2)
    /\ Logged("warn", 2, "config")
    /\ melCloud[1].connect = "ok"

\* C6: of two accounts with all fields and the same name the later one gets
\* no connect, no scheduler and no controller; and when it is rejected as a
\* duplicate the earlier one has already gone through its whole start-up
\* (connect settled, and after a successful connect the device listing, and
\* after a successful listing one scheduler start and the three dispatch
\* loops), which the rejection leaves as it is.
C6_DuplicateRejectedFirstUnaffected ==
    \A i \in Indices, j \in Indices :
        (/\ i < j
         /\ FieldsPresent(i) /\ FieldsPresent(j)
         /\ accounts[i].name = accounts[j].name) =>
            /\ ~ConnectCalled(j)
            /\ ~SchedulerStarted(j)
            /\ controllers[j] = <<>>
            /\ Logged("warn", j, "unique") =>
                /\ melCloud[i].connect \in {"ok", "failed"}
                /\ melCloud[i].connect = "ok" => melCloud[i].list \in {"ok", "failed"}
                /\ melCloud[i].list = "ok" =>
                    /\ Len(melCloud[i].timers) = 1
                    /\ entered[i] = Types
                    /\ ~Pending(i)

\* the second account was rejected as a duplicate of the first, which ran
\* its dispatch loops
C6_Witness ==
    /\ Len(accounts) >= 2
    /\ Logged("warn", 2, "unique")
    /\ melCloud[1].list = "ok"
    /\ controllers[1] # <<>>

\* C7: every controller belongs to a configured entry with displayMode > 0
\* whose id is in the account's device snapshot; and when the loop has moved
\* past an entry that is disabled or absent from the snapshot, that entry
\* has no controller and the loop's catch has logged nothing.
C7_OnlyEnabledPresentDevicesGetControllers ==
    \A i \in Indices :
        /\ \A n \in 1..Len(controllers[i]) :
              <<controllers[i][n].type, controllers[i][n].index>> \in BoundEntries(i)
        /\ (/\ acc = i /\ pc = "devices" /\ typ \in Types /\ idx > 1
            /\ <<typ, idx - 1>> \in ConfiguredEntries(i) \ BoundEntries(i)) =>
                /\ ~Attempted(i, <<typ, idx - 1>>)
                /\ ~Logged("error", i, TypeName[typ])

\* the loop has passed a disabled device that is in the snapshot and then an
\* enabled device that is not
C7_Witness ==
    /\ pc = "devices" /\ typ \in Types /\ idx = 3
    /\ <<typ, 2>> \in ConfiguredEntries(acc)
    /\ ConfiguredDevice(acc, <<typ, 1>>).displayMode = Some(0)
    /\ ConfiguredDevice(acc, <<typ, 1>>).id \in melCloud[acc].devices
    /\ ConfiguredDevice(acc, <<typ, 2>>).displayMode = Some(1)
    /\ ConfiguredDevice(acc, <<typ, 2>>).id \notin melCloud[acc].devices
    /\ controllers[acc] = <<>>

\* C8: when the iteration of an account is over, its device list arrived
\* and no controller construction or start failed, each enabled and present
\* configured entry has exactly one controller, started, with the entry's
\* id, and there is no other controller; a cloud device that is not
\* configured has none.
C8_ControllersAreExactlyBoundEntries ==
    \A i \in Indices :
        (IterationOver(i) /\ melCloud[i].list = "ok" /\ Failures(i) = {}) =>
            /\ \A e \in BoundEntries(i) : Cardinality(ControllersOf(i, e)) = 1
            /\ \A n \in 1..Len(controllers[i]) :
                  LET e == <<controllers[i][n].type, controllers[i][n].index>> IN
                  /\ e \in BoundEntries(i)
                  /\ controllers[i][n].deviceId = ConfiguredDevice(i, e).id
                  /\ controllers[i][n].state = "started"
            /\ \A d \in melCloud[i].devices :
                  (\A e \in ConfiguredEntries(i) : ConfiguredDevice(i, e).id # d) =>
                      \A n \in 1..Len(controllers[i]) : controllers[i][n].deviceId # d

\* the scenario of the specification: one ATA device 1 with displayMode 1,
\* the cloud reports devices 1 and 2, one controller is started, for 1
C8_Witness ==
    /\ Len(accounts) = 1
    /\ HandlerEnded
    /\ accounts[1].ataDevices = Some(<<[id |-> 1, displayMode |-> Some(1)]>>)
    /\ melCloud[1].devices = {1, 2}
    /\ Len(controllers[1]) = 1
    /\ controllers[1][1].deviceId = 1
    /\ controllers[1][1].state = "started"

\* C9: when the iteration of an account whose device list arrived is over,
\* a failure logged by the catch of the ATA loop was followed by the ATW and
\* ERV loops, and one logged by the catch of the ATW loop by the ERV loop.
C9_LoopFailureDoesNotStopNextLoops ==
    \A i \in Indices :
        (IterationOver(i) /\ melCloud[i].list = "ok") =>
            /\ Logged("error", i, "ATA") => {2, 3} \subseteq entered[i]
            /\ Logged("error", i, "ATW") => 3 \in entered[i]

\* the ATA loop failed on a controller and the ATW loop on a missing list,
\* and all three loops ran
C9_Witness ==
    /\ HandlerEnded
    /\ Len(accounts) = 1
    /\ Failures(1) # {}
    /\ accounts[1].atwDevices = None
    /\ Logged("error", 1, "ATA")
    /\ Logged("error", 1, "ATW")
    /\ entered[1] = Types

\* the sampling of the timer given to the impulse generator of account i
Sampling(i) == melCloud[i].timers[1][1].sampling

\* C10 (as stated): the scheduler gets refreshInterval * 1000 when the
\* configured value is positive and 120000 when it is unset or not
\* positive, so always a positive number; the controllers get 5000 when
\* deviceRefreshInterval is unset.
C10_DefaultWhenUnsetOrNonPositive ==
    \A i \in Indices :
        /\ SchedulerStarted(i) =>
            /\ Sampling(i) =
                 IF accounts[i].refreshInterval # None /\ Val(accounts[i].refreshInterval) > 0
                 THEN Val(accounts[i].refreshInterval) * 1000
                 ELSE 120000
            /\ Sampling(i) > 0
        /\ \A n \in 1..Len(controllers[i]) :
              accounts[i].deviceRefreshInterval = None =>
                  controllers[i][n].deviceRefreshInterval = 5000

\* C10 (amended): the scheduler gets refreshInterval * 1000 when the
\* configured value is a number other than zero (a negative one too) and
\* 120000 when it is unset or zero; it is positive whenever the configured
\* value is unset or not negative.  The controllers get
\* deviceRefreshInterval * 1000 by the same rule, with 5000 as the default.
C10_DefaultWhenUnsetOrZero ==
    \A i \in Indices :
        /\ SchedulerStarted(i) =>
            /\ Sampling(i) =
                 IF accounts[i].refreshInterval # None /\ Val(accounts[i].refreshInterval) # 0
                 THEN Val(accounts[i].refreshInterval) * 1000
                 ELSE 120000
            /\ (accounts[i].refreshInterval = None \/ Val(accounts[i].refreshInterval) >= 0)
                  => Sampling(i) > 0
        /\ \A n \in 1..Len(controllers[i]) :
              controllers[i][n].deviceRefreshInterval =
                 IF /\ accounts[i].deviceRefreshInterval # None
                    /\ Val(accounts[i].deviceRefreshInterval) # 0
                 THEN Val(accounts[i].deviceRefreshInterval) * 1000
                 ELSE 5000

\* a configured refreshInterval of -1 reaches the scheduler as -1000, next
\* to a controller that got the default device interval
C10_Witness ==
    \E i \in Indices :
        /\ accounts[i].refreshInterval = Some(-1)
        /\ accounts[i].deviceRefreshInterval = None
        /\ SchedulerStarted(i)
        /\ Sampling(i) = -1000
        /\ controllers[i] # <<>>
        /\ controllers[i][1].deviceRefreshInterval = 5000

\* C11: whatever ticks have run and whatever lists they brought, every
\* controller is for a configured entry that is enabled and whose id is in
\* the list returned by the initial device-list call, no configured entry
\* has more than one controller, and once the iteration of the account is
\* over without a failure the entries with a controller are exactly those;
\* so a device that is only in a later list has no controller.
C11_DispatchOnceFromInitialList ==
    \A i \in Indices :
        /\ \A n \in 1..Len(controllers[i]) :
              /\ <<controllers[i][n].type, controllers[i][n].index>> \in BoundEntries(i)
              /\ controllers[i][n].deviceId \in melCloud[i].devices
        /\ \A e \in ConfiguredEntries(i) : Cardinality(ControllersOf(i, e)) <= 1
        /\ (IterationOver(i) /\ melCloud[i].list = "ok" /\ Failures(i) = {}) =>
              {e \in ConfiguredEntries(i) : Attempted(i, e)} = BoundEntries(i)

\* device 2 was not in the initial list, a tick that ran while the start of
\* device 1 was awaited brought it, and the handler ended without a
\* controller for it
C11_Witness ==
    /\ HandlerEnded
    /\ melCloud[1].devices = {1}
    /\ melCloud[1].registry = {1, 2}
    /\ melCloud[1].ticks > 0
    /\ Len(controllers[1]) = 1
    /\ controllers[1][1].deviceId = 1
    /\ controllers[1][1].state = "started"
    /\ <<1, 2>> \in ConfiguredEntries(1)
    /\ ConfiguredDevice(1, <<1, 2>>).id = 2
    /\ ConfiguredDevice(1, <<1, 2>>).displayMode = Some(1)

\* the connect or the initial device-list call of account i failed
Failed(i) == melCloud[i].connect = "failed" \/ melCloud[i].list = "failed"
\* the start-up of account i went through: scheduler started, loops finished
Running(i) ==
    /\ melCloud[i].list = "ok"
    /\ SchedulerStarted(i)
    /\ entered[i] = Types
    /\ ~Pending(i)
    /\ IterationOver(i)
ErrorsOf(i) == {n \in 1..Len(log) : log[n].account = i /\ log[n].level = "error"}

\* C12: for an account whose connect or initial device-list call failed,
\* the scheduler is not started, no dispatch loop is entered and no
\* controller is constructed, connect was called once and no call is
\* pending, and the log holds one error for the account, the one of the
\* account-level catch.
C12_FailedIsTerminal ==
    \A i \in Indices :
        Failed(i) =>
            /\ ~SchedulerStarted(i)
            /\ entered[i] = {}
            /\ controllers[i] = <<>>
            /\ melCloud[i].connects = 1
            /\ ~Pending(i)
            /\ Cardinality(ErrorsOf(i)) = 1
            /\ Logged("error", i, "account")

\* the first account failed on its device list, the second on connect, and
\* the handler has completed
C12_Witness ==
    /\ Len(accounts) = 2
    /\ HandlerEnded
    /\ melCloud[1].list = "failed"
    /\ melCloud[2].connect = "failed"

\* C13: the controllers of an account are constructed in the order of
\* (type, position in the configured list), and when a controller is
\* constructed the start of every earlier one of the account has settled: at
\* most the last one is starting.
C13_StartsOneAtATimeInOrder ==
    \A i \in Indices :
        \A n \in 1..Len(controllers[i]) :
            n < Len(controllers[i]) =>
                /\ controllers[i][n].state # "starting"
                /\ \/ controllers[i][n].type < controllers[i][n + 1].type
                   \/ /\ controllers[i][n].type = controllers[i][n + 1].type
                      /\ controllers[i][n].index < controllers[i][n + 1].index

\* an ERV controller is starting after an ATA controller of the account
\* failed to start
C13_Witness ==
    \E i \in Indices :
        /\ Len(controllers[i]) = 2
        /\ controllers[i][1].type = 1
        /\ controllers[i][1].state = "failed"
        /\ controllers[i][2].type = 3
        /\ controllers[i][2].state = "starting"

\* C14: per account connect is called at most once, the device-list call
\* is made only after connect succeeded, the scheduler is started at most
\* once, with the one checkDevicesList timer, only after both calls
\* succeeded, and no dispatch loop is entered and no controller constructed
\* before the scheduler is started.
C14_StartupStepsInOrder ==
    \A i \in Indices :
        /\ melCloud[i].connects <= 1
        /\ ListCalled(i) => melCloud[i].connect = "ok"
        /\ Len(melCloud[i].timers) <= 1
        /\ SchedulerStarted(i) =>
              /\ melCloud[i].connect = "ok"
              /\ melCloud[i].list = "ok"
              /\ Len(melCloud[i].timers[1]) = 1
              /\ melCloud[i].timers[1][1].name = "checkDevicesList"
        /\ (entered[i] # {} \/ controllers[i] # <<>>) => SchedulerStarted(i)

\* the first controller of an account is starting, after the scheduler
C14_Witness ==
    \E i \in Indices :
        /\ SchedulerStarted(i)
        /\ Len(controllers[i]) = 1
        /\ controllers[i][1].state = "starting"

\* C15: the pushed names are pairwise distinct; an account for which
\* connect was called has its name among them (pushed with the call, never
\* removed) and shares it with no other such account; nothing else is
\* pushed, so an account rejected for a missing field reserves nothing; and
\* an account that reuses the name of an earlier one whose connect failed
\* never has connect called.
C15_NamesReservedAndKept ==
    /\ \A m \in 1..Len(accountsName), n \in 1..Len(accountsName) :
          m # n => accountsName[m] # accountsName[n]
    /\ Len(accountsName) = Cardinality({i \in Indices : ConnectCalled(i)})
    /\ \A i \in Indices :
          /\ ConnectCalled(i) => Includes(accountsName, Val(accounts[i].name))
          /\ ~FieldsPresent(i) => ~ConnectCalled(i)
    /\ \A i \in Indices, j \in Indices :
          /\ (i # j /\ ConnectCalled(i) /\ ConnectCalled(j)) =>
                accounts[i].name # accounts[j].name
          /\ (/\ i < j
              /\ FieldsPresent(i) /\ FieldsPresent(j)
              /\ accounts[i].name = accounts[j].name
              /\ melCloud[i].connect = "failed") => ~ConnectCalled(j)

\* the second account reuses the name of the first, whose connect failed,
\* and is rejected as a duplicate
C15_Witness ==
    /\ Len(accounts) >= 2
    /\ melCloud[1].connect = "failed"
    /\ accounts[2].name = accounts[1].name
    /\ Logged("warn", 2, "unique")
    /\ accountsName = <<Val(accounts[1].name)>>

\* C16: when every configured account passes validation and every awaited
\* call settles, the handler eventually completes with every account
\* running or failed.
C16_EveryAccountSettles ==
    (\A i \in Indices : PassesValidation(i)) =>
        <>(pc = "done" /\ \A i \in Indices : Running(i) \/ Failed(i))

\* the handler completed with one account failed and the other running
C16_Witness ==
    /\ pc = "done"
    /\ Len(accounts) = 2
    /\ \A i \in Indices : PassesValidation(i)
    /\ Failed(1)
    /\ Running(2)
    /\ controllers[2] # <<>>

====
